---------------------------- MODULE Spec2Model ----------------------------
(***************************************************************************)
(* Model of web_visualizer.py: the Dash dashboard WebLiDARVisualizer.       *)
(*                                                                         *)
(* Numbers: the sliders carry decimal fractions; the model carries them as *)
(* integers (sample_rate in hundredths, point_size in tenths, opacity in   *)
(* hundredths).  Coordinates and distances are integers.  Texts shown in   *)
(* the UI are carried as ASCII tags.                                       *)
(***************************************************************************)
EXTENDS Integers, Sequences, FiniteSets, TLC

VARIABLES
    dir,            \* the data directory on disk: [exists, entries]
    files,          \* the content of each path on disk
    phase,          \* "new" | "constructed" | "ready"
    options,        \* file-dropdown options (a list of [label, value])
    selected_file,  \* file-dropdown value
    sample_rate,    \* sample-rate-slider value, in hundredths
    point_size,     \* point-size-slider value, in tenths
    opacity,        \* opacity-slider value, in hundredths
    color_by,       \* color-by-radio value
    viz_type,       \* viz-type-radio value
    auto_update,    \* auto-update-checkbox value (the set of ticked values)
    graph_figure,   \* output point-cloud-graph.figure
    data_info,      \* output data-info.children
    stats_figure,   \* output stats-graph.figure
    last            \* the last callback run: [trigger, returned, loader, escaped, file]

world   == <<dir, files>>
inputs  == <<selected_file, sample_rate, point_size, opacity, color_by, viz_type, auto_update>>
outputs == <<graph_figure, data_info, stats_figure>>
vars    == <<dir, files, phase, options, selected_file, sample_rate, point_size,
             opacity, color_by, viz_type, auto_update, graph_figure, data_info,
             stats_figure, last>>

----------------------------------------------------------------------------
(* Bounds of the explored inputs *)

\* longest CSV table drawn by InitData
MaxRows == 3

\* distance values a drawn CSV row may carry
Distances == {-1, 0, 2}

----------------------------------------------------------------------------
(* Paths *)

\* dropdown value None
NoFile == "<None>"

CsvA     == "a.csv"
PcdB     == "b.pcd"
PlyC     == "c.ply"
NoDist   == "nodist.csv"
NoCoord  == "nocoord.csv"
BadCsv   == "bad.csv"
NotesTxt == "notes.txt"
UpperCsv == "D.CSV"
Hidden   == ".h.csv"
SubDir   == "sub.csv"

\* every name the model knows
AllNames == {CsvA, PcdB, PlyC, NoDist, NoCoord, BadCsv, NotesTxt, UpperCsv, Hidden, SubDir}

\* Path(file).suffix: the text from the last dot of the name on (a leading dot starts no suffix)
Suffix(f) ==
    CASE f \in {CsvA, NoDist, NoCoord, BadCsv, Hidden, SubDir} -> ".csv"
      [] f = PcdB     -> ".pcd"
      [] f = PlyC     -> ".ply"
      [] f = NotesTxt -> ".txt"
      [] f = UpperCsv -> ".CSV"
      [] OTHER        -> ""

\* str.lower()
Lower(s) ==
    CASE s = ".CSV" -> ".csv"
      [] OTHER      -> s

\* names fnmatch treats as hidden: they start with a dot
StartsWithDot(f) == f = Hidden

\* fnmatch.fnmatch(name, "*." + ext) inside glob.glob: case-sensitive, and a
\* pattern that does not start with a dot matches no name that does
GlobMatch(f, ext) == ~StartsWithDot(f) /\ Suffix(f) = "." \o ext

----------------------------------------------------------------------------
(* Data frames: [columns |-> set of names, rows |-> sequence of [idx, v]] *)

X == "Points_m_XYZ:0"
Y == "Points_m_XYZ:1"
Z == "Points_m_XYZ:2"
AllColumns == {X, Y, Z, "intensity", "distance", "timestamp"}

EmptyDF == [columns |-> {}, rows |-> <<>>]

\* a value returned normally
Ok(v) == [exc |-> "none", msg |-> <<>>, val |-> v]
\* an exception raised
Raise(type, msg) == [exc |-> type, msg |-> msg, val |-> <<>>]

\* df[col] as the sequence of the column's values
Column(df, c) == [i \in 1..Len(df.rows) |-> df.rows[i].v[c]]

RECURSIVE SeqMin(_)
SeqMin(s) == IF Len(s) = 1 THEN s[1]
             ELSE LET m == SeqMin(Tail(s)) IN IF s[1] < m THEN s[1] ELSE m
RECURSIVE SeqMax(_)
SeqMax(s) == IF Len(s) = 1 THEN s[1]
             ELSE LET m == SeqMax(Tail(s)) IN IF s[1] > m THEN s[1] ELSE m

\* [min, max] of a column; <<>> stands for nan (an empty column)
Range(df, c) == IF df.rows = <<>> THEN <<>>
                ELSE <<SeqMin(Column(df, c)), SeqMax(Column(df, c))>>

\* the row a CSV line with distance d makes at position i
CsvRow(i, d) == [idx |-> i - 1,
                 v |-> [c \in AllColumns |->
                          CASE c = X -> i
                            [] c = Y -> 0 - i
                            [] c = Z -> 2 * i
                            [] c = "intensity" -> 7
                            [] c = "distance"  -> d
                            [] OTHER -> 0]]

\* a CSV file with all columns whose distance column is ds
CsvTable(ds) == [format |-> "csv", parse_ok |-> TRUE, columns |-> AllColumns,
                 rows |-> [i \in 1..Len(ds) |-> CsvRow(i, ds[i])]]

\* the same table without the columns in drop
DropColumns(t, drop) ==
    [t EXCEPT !.columns = t.columns \ drop,
              !.rows = [i \in 1..Len(t.rows) |->
                          [idx |-> t.rows[i].idx,
                           v |-> [c \in t.columns \ drop |-> t.rows[i].v[c]]]]]

\* the files of the fixed world
FixedFiles ==
    [f \in AllNames |->
        CASE f \in {CsvA, UpperCsv, Hidden} -> CsvTable(<<2, 0, 5, -1>>)
          [] f = NoDist  -> DropColumns(CsvTable(<<2, 5>>), {"distance"})
          [] f = NoCoord -> DropColumns(CsvTable(<<2, 5>>), {X, Y, Z})
          [] f = BadCsv  -> [format |-> "csv", parse_ok |-> FALSE, columns |-> {}, rows |-> <<>>]
          [] f = PcdB -> [format |-> "cloud", points |-> << <<0, 0, 0>>, <<3, 4, 0>> >>]
          [] f = PlyC -> [format |-> "cloud", points |-> << <<0, 0, 2>> >>]
          [] f = SubDir -> [format |-> "dir"]
          [] OTHER -> [format |-> "other"]]

----------------------------------------------------------------------------
(* Library calls, by what they do for the callers below *)

\* pd.read_csv(path): the table, or the error pandas raises
read_csv(f) ==
    LET c == files[f] IN
    IF c.format = "dir" THEN Raise("IsADirectoryError", <<"Is a directory", f>>)
    ELSE IF c.format # "csv" \/ ~c.parse_ok
         THEN Raise("ParserError", <<"Error tokenizing data", f>>)
    ELSE Ok([columns |-> c.columns, rows |-> c.rows])

\* o3d.io.read_point_cloud(path) then np.asarray(pcd.points): the N x 3 array;
\* a file open3d cannot read gives an empty cloud and a warning, no exception
read_point_cloud(f) ==
    LET c == files[f] IN IF c.format = "cloud" THEN c.points ELSE <<>>

\* floor of the square root
ISqrt(n) == CHOOSE r \in 0..n : r * r <= n /\ (r + 1) * (r + 1) > n

\* np.linalg.norm(points, axis=1) for one point
Norm(p) == ISqrt(p[1] * p[1] + p[2] * p[2] + p[3] * p[3])

\* the exception types of the model that derive from Exception
ExceptionTypes == {"ValueError", "KeyError", "ParserError", "IsADirectoryError",
                   "UnboundLocalError"}

----------------------------------------------------------------------------
(* Loaders *)

\* variant: the filter keeps distance >= 0
FilterValid_KeepsZero(rows) == SelectSeq(rows, LAMBDA r : r.v["distance"] >= 0)

\* rows of df with distance > 0, index kept
FilterValid(rows) == SelectSeq(rows, LAMBDA r : r.v["distance"] > 0)

load_csv_data(csv_file) ==
    LET r == read_csv(csv_file) IN
    IF r.exc # "none" THEN r
    ELSE IF "distance" \notin r.val.columns THEN Raise("KeyError", <<"'distance'">>)
    ELSE Ok([r.val EXCEPT !.rows = FilterValid(r.val.rows)])

load_pcd_data(pcd_file) ==
    LET points == read_point_cloud(pcd_file) IN
    Ok([columns |-> AllColumns,
        rows |-> [i \in 1..Len(points) |->
                    [idx |-> i - 1,
                     v |-> [c \in AllColumns |->
                              CASE c = X -> points[i][1]
                                [] c = Y -> points[i][2]
                                [] c = Z -> points[i][3]
                                [] c = "intensity" -> 0
                                [] c = "distance"  -> Norm(points[i])
                                [] OTHER -> 0]]]])

\* the dispatch on the extension in update_visualization
LoaderOf(file) ==
    LET file_ext == Lower(Suffix(file)) IN
    IF file_ext = ".csv" THEN "csv"
    ELSE IF file_ext \in {".pcd", ".ply"} THEN "pcd"
    ELSE "none"

LoadFile(file) ==
    LET file_ext == Lower(Suffix(file)) IN
    IF file_ext = ".csv" THEN load_csv_data(file)
    ELSE IF file_ext \in {".pcd", ".ply"} THEN load_pcd_data(file)
    ELSE Raise("ValueError", <<"unsupported file format", file_ext>>)

----------------------------------------------------------------------------
(* Sampling *)

\* variant: the product is rounded to the nearest integer
SampleSize_Rounds(n_points, rate) == (n_points * rate + 50) \div 100

\* int(n_points * sample_rate), the rate in hundredths.  The code multiplies
\* in binary floating point; for n_points < 50 the truncated product is the
\* integer computed here (at n_points = 50, rate 0.58 it is 28, not 29).
SampleSize(n_points, rate) == (n_points * rate) \div 100

Min(a, b) == IF a < b THEN a ELSE b

\* df.sample(n=n): every choice of n rows without replacement, in every order
DfSample(df, n) ==
    { [df EXCEPT !.rows = [i \in 1..n |-> df.rows[pick[i]]]] :
        pick \in { p \in [1..n -> 1..Len(df.rows)] :
                     \A i, j \in 1..n : i # j => p[i] # p[j] } }

\* the sampling step: the set of data frames df_sampled may be
SampleStep(df, rate) ==
    LET n_points    == Len(df.rows)
        sample_size == SampleSize(n_points, rate)
    IN  IF sample_size > 0 THEN DfSample(df, Min(sample_size, n_points))
        ELSE {df}

----------------------------------------------------------------------------
(* Renderers *)

\* the first of the coordinate columns df lacks, as the KeyError df[...] raises
MissingCoord(df) ==
    IF X \notin df.columns THEN Raise("KeyError", <<"'Points_m_XYZ:0'">>)
    ELSE IF Y \notin df.columns THEN Raise("KeyError", <<"'Points_m_XYZ:1'">>)
    ELSE IF Z \notin df.columns THEN Raise("KeyError", <<"'Points_m_XYZ:2'">>)
    ELSE Ok(<<>>)

create_visualization(df, color, viz, size, alpha) ==
    IF MissingCoord(df).exc # "none" THEN MissingCoord(df)
    ELSE
    LET x == Column(df, X)
        y == Column(df, Y)
        z == Column(df, Z)
        by == IF color = "height" THEN "height"
              ELSE IF color = "intensity" /\ "intensity" \in df.columns THEN "intensity"
              ELSE IF color = "distance" /\ "distance" \in df.columns THEN "distance"
              ELSE "height"
        colors == IF by = "height" THEN z ELSE Column(df, by)
        color_label == CASE by = "height"    -> "Height (m)"
                         [] by = "intensity" -> "Intensity"
                         [] by = "distance"  -> "Distance (m)"
        marker == [size |-> size, opacity |-> alpha, color |-> colors,
                   color_label |-> color_label]
        index == [i \in 1..Len(df.rows) |-> df.rows[i].idx]
    IN  CASE viz = "3d" -> Ok([kind |-> "scatter3d", title |-> "3D", x |-> x, y |-> y,
                                z |-> z, marker |-> marker, index |-> index])
          [] viz = "xy" -> Ok([kind |-> "scatter", title |-> "XY", x |-> x, y |-> y,
                                marker |-> marker, index |-> index])
          [] viz = "xz" -> Ok([kind |-> "scatter", title |-> "XZ", x |-> x, y |-> z,
                                marker |-> marker, index |-> index])
          [] viz = "yz" -> Ok([kind |-> "scatter", title |-> "YZ", x |-> y, y |-> z,
                                marker |-> marker, index |-> index])
          [] OTHER -> Raise("UnboundLocalError", <<"fig">>)

create_stats_chart(df) ==
    IF MissingCoord(df).exc # "none" THEN MissingCoord(df)
    ELSE Ok([kind |-> "stats",
             x |-> Column(df, X), y |-> Column(df, Y), z |-> Column(df, Z),
             distance |-> IF "distance" \in df.columns
                          THEN Column([df EXCEPT !.rows = FilterValid(df.rows)], "distance")
                          ELSE <<>>,
             index |-> [i \in 1..Len(df.rows) |-> df.rows[i].idx]])

\* the figure with the centred prompt (lines 262-268)
PromptFigure == [kind |-> "annotation", text |-> <<"select a file and click load">>,
                 color |-> "default"]
\* the data-info text of the layout and of the no-file branch
PromptText == [kind |-> "text", text |-> <<"select and load a data file first">>]
\* the figure with the error text in red (lines 319-325)
ErrorFigure(msg) == [kind |-> "annotation", text |-> <<"load failed">> \o msg, color |-> "red"]
ErrorText(msg) == [kind |-> "text", text |-> <<"error">> \o msg]
\* a dcc.Graph the layout gives no figure
NoFigure == [kind |-> "none"]

----------------------------------------------------------------------------
(* The body of the try block of update_visualization *)

\* info_text for one sampled frame
InfoText(file, df, df_sampled, p) ==
    IF X \in df_sampled.columns /\ MissingCoord(df).exc # "none" THEN MissingCoord(df)
    ELSE Ok([kind |-> "info", file |-> file, total |-> Len(df.rows),
             sampled |-> Len(df_sampled.rows), rate |-> p.sample_rate,
             point_size |-> p.point_size, opacity |-> p.opacity,
             ranges |-> IF X \in df_sampled.columns
                        THEN <<Range(df, X), Range(df, Y), Range(df, Z)>>
                        ELSE <<>>])

\* variant: the statistics are drawn from the sampled frame
RenderAll_StatsOfSample(file, df, df_sampled, p) ==
    LET info  == InfoText(file, df, df_sampled, p)
        fig   == create_visualization(df_sampled, p.color_by, p.viz_type,
                                      p.point_size, p.opacity)
        stats == create_stats_chart(df_sampled)
    IN  IF info.exc # "none" THEN info
        ELSE IF fig.exc # "none" THEN fig
        ELSE IF stats.exc # "none" THEN stats
        ELSE Ok(<<fig.val, info.val, stats.val>>)

\* lines 289-316 for one sampled frame
RenderAll(file, df, df_sampled, p) ==
    LET info  == InfoText(file, df, df_sampled, p)
        fig   == create_visualization(df_sampled, p.color_by, p.viz_type,
                                      p.point_size, p.opacity)
        stats == create_stats_chart(df)
    IN  IF info.exc # "none" THEN info
        ELSE IF fig.exc # "none" THEN fig
        ELSE IF stats.exc # "none" THEN stats
        ELSE Ok(<<fig.val, info.val, stats.val>>)

\* every outcome the try block may have: a triple of outputs or an exception
Pipeline(file, p) ==
    LET l == LoadFile(file) IN
    IF l.exc # "none" THEN {l}
    ELSE { RenderAll(file, l.val, s, p) : s \in SampleStep(l.val, p.sample_rate) }

----------------------------------------------------------------------------
(* File enumeration and layout *)

\* the order in which the OS lists directory entries (the model fixes one)
ListingOrder == <<CsvA, BadCsv, NoDist, NoCoord, SubDir, Hidden, UpperCsv, PcdB, PlyC, NotesTxt>>

\* glob.glob(str(data_path / "*.ext")): a directory that does not exist, or
\* cannot be listed, gives the empty list
Glob(ext) ==
    IF ~dir.exists THEN <<>>
    ELSE SelectSeq(ListingOrder, LAMBDA f : f \in dir.entries /\ GlobMatch(f, ext))

Option(f) == [label |-> f, value |-> f]

\* variant: a directory that does not exist is an error
get_available_files_Strict ==
    LET found(ext) == [i \in 1..Len(Glob(ext)) |-> Option(Glob(ext)[i])]
    IN  IF ~dir.exists THEN Raise("FileNotFoundError", <<"No such file or directory">>)
        ELSE Ok(found("csv") \o found("pcd") \o found("ply"))

get_available_files ==
    LET found(ext) == [i \in 1..Len(Glob(ext)) |-> Option(Glob(ext)[i])]
    IN  Ok(found("csv") \o found("pcd") \o found("ply"))

\* the values setup_layout gives the controls and the outputs
LayoutDefaults ==
    /\ selected_file = NoFile
    /\ sample_rate = 10
    /\ point_size = 15
    /\ opacity = 60
    /\ color_by = "height"
    /\ viz_type = "3d"
    /\ auto_update = {"auto"}
    /\ graph_figure = NoFigure
    /\ data_info = PromptText
    /\ stats_figure = NoFigure

NoRun == [trigger |-> "none", returned |-> "none", loader |-> "none",
          escaped |-> "none", file |-> NoFile]

\* __init__: setup_layout, then setup_callbacks
Construct ==
    /\ phase = "new"
    /\ LET r == get_available_files IN
         IF r.exc = "none"
         THEN phase' = "constructed" /\ options' = r.val
         ELSE phase' = "startup_failed" /\ options' = options
    /\ UNCHANGED <<world, inputs, outputs, last>>

----------------------------------------------------------------------------
(* The callback *)

\* the Input values of a request
Params(sr, ps, op, cb, vt) ==
    [sample_rate |-> sr, point_size |-> ps, opacity |-> op, color_by |-> cb, viz_type |-> vt]

\* ctx.triggered[0]['prop_id'].split('.')[0], or 'load-button' when nothing triggered
TriggerId(triggered) ==
    IF triggered = <<>> THEN "load-button" ELSE triggered[1].component

\* what line 256 tells apart in a trigger: the load button, or any other input
Origin(trigger_id) == IF trigger_id = "load-button" THEN "load-button" ELSE "parameter"

\* variant: the except clause names ValueError only
Caught_ValueErrorOnly(exc) == exc = "ValueError"

\* the except clause: Exception and its subclasses
Caught(exc) == exc \in ExceptionTypes

\* variant: the early return is missing
Skips_Never(trigger_id, auto) == FALSE

\* variant: the early return ignores the checkbox
Skips_IgnoresAuto(trigger_id, auto) == trigger_id # "load-button"

\* the condition of the early return (line 256)
Skips(trigger_id, auto) == trigger_id # "load-button" /\ "auto" \notin auto

\* variant: the test for a missing selection is missing
NoSelection_Never(file) == FALSE

\* selected_file is None (line 261)
NoSelection(file) == file = NoFile

\* variant: the statistics graph is left without a figure
NoFileOutputs_NoStats == <<PromptFigure, PromptText, NoFigure>>

\* the return of the no-file branch (line 269)
NoFileOutputs == <<PromptFigure, PromptText, PromptFigure>>

update_visualization(triggered, p) ==
    LET trigger_id == TriggerId(triggered) IN
    IF Skips(trigger_id, auto_update)
    THEN /\ UNCHANGED outputs
         /\ last' = [trigger |-> Origin(trigger_id), returned |-> "no_update", loader |-> "none",
                     escaped |-> "none", file |-> NoFile]
    ELSE IF NoSelection(selected_file)
    THEN /\ graph_figure' = NoFileOutputs[1]
         /\ data_info' = NoFileOutputs[2]
         /\ stats_figure' = NoFileOutputs[3]
         /\ last' = [trigger |-> Origin(trigger_id), returned |-> "prompt", loader |-> "none",
                     escaped |-> "none", file |-> NoFile]
    ELSE \E r \in Pipeline(selected_file, p) :
           IF r.exc = "none"
           THEN /\ graph_figure' = r.val[1]
                /\ data_info' = r.val[2]
                /\ stats_figure' = r.val[3]
                /\ last' = [trigger |-> Origin(trigger_id), returned |-> "loaded",
                            loader |-> LoaderOf(selected_file), escaped |-> "none",
                            file |-> selected_file]
           ELSE IF Caught(r.exc)
           THEN /\ graph_figure' = ErrorFigure(r.msg)
                /\ data_info' = ErrorText(r.msg)
                /\ stats_figure' = ErrorFigure(r.msg)
                /\ last' = [trigger |-> Origin(trigger_id), returned |-> "error",
                            loader |-> LoaderOf(selected_file), escaped |-> "none",
                            file |-> selected_file]
           ELSE /\ UNCHANGED outputs
                /\ last' = [trigger |-> Origin(trigger_id), returned |-> "raised",
                            loader |-> LoaderOf(selected_file), escaped |-> r.exc,
                            file |-> selected_file]

Prop(component) == <<[component |-> component, property |-> "value"]>>

----------------------------------------------------------------------------
(* Events *)

\* values of the controls the model explores
SampleRates == {10, 50}
PointSizes  == {15, 30}
Opacities   == {60, 100}
ColorModes  == {"height", "distance"}
VizTypes    == {"3d", "xy"}

\* the browser loads the page: Dash runs the callback once with nothing triggered
PageLoad ==
    /\ phase = "constructed"
    /\ phase' = "ready"
    /\ update_visualization(<<>>, Params(sample_rate, point_size, opacity, color_by, viz_type))
    /\ UNCHANGED <<world, options, inputs>>

ClickLoad ==
    /\ phase = "ready"
    /\ update_visualization(<<[component |-> "load-button", property |-> "n_clicks"]>>,
                            Params(sample_rate, point_size, opacity, color_by, viz_type))
    /\ UNCHANGED <<world, phase, options, inputs>>

ChangePointSize(v) ==
    /\ phase = "ready" /\ v # point_size
    /\ point_size' = v
    /\ update_visualization(Prop("point-size-slider"),
                            Params(sample_rate, v, opacity, color_by, viz_type))
    /\ UNCHANGED <<world, phase, options, selected_file, sample_rate, opacity, color_by,
                   viz_type, auto_update>>

ChangeOpacity(v) ==
    /\ phase = "ready" /\ v # opacity
    /\ opacity' = v
    /\ update_visualization(Prop("opacity-slider"),
                            Params(sample_rate, point_size, v, color_by, viz_type))
    /\ UNCHANGED <<world, phase, options, selected_file, sample_rate, point_size, color_by,
                   viz_type, auto_update>>

ChangeSampleRate(v) ==
    /\ phase = "ready" /\ v # sample_rate
    /\ sample_rate' = v
    /\ update_visualization(Prop("sample-rate-slider"),
                            Params(v, point_size, opacity, color_by, viz_type))
    /\ UNCHANGED <<world, phase, options, selected_file, point_size, opacity, color_by,
                   viz_type, auto_update>>

ChangeColorBy(v) ==
    /\ phase = "ready" /\ v # color_by
    /\ color_by' = v
    /\ update_visualization(Prop("color-by-radio"),
                            Params(sample_rate, point_size, opacity, v, viz_type))
    /\ UNCHANGED <<world, phase, options, selected_file, sample_rate, point_size, opacity,
                   viz_type, auto_update>>

ChangeVizType(v) ==
    /\ phase = "ready" /\ v # viz_type
    /\ viz_type' = v
    /\ update_visualization(Prop("viz-type-radio"),
                            Params(sample_rate, point_size, opacity, color_by, v))
    /\ UNCHANGED <<world, phase, options, selected_file, sample_rate, point_size, opacity,
                   color_by, auto_update>>

\* variant: file-dropdown is wired as an Input of the callback
SelectFile_AsInput(f) ==
    /\ phase = "ready" /\ f # selected_file
    /\ selected_file' = f
    /\ LET p == Params(sample_rate, point_size, opacity, color_by, viz_type)
           trigger_id == "file-dropdown" IN
         IF Skips(trigger_id, auto_update)
         THEN UNCHANGED <<outputs, last>>
         ELSE IF NoSelection(f)
         THEN /\ graph_figure' = NoFileOutputs[1]
              /\ data_info' = NoFileOutputs[2]
              /\ stats_figure' = NoFileOutputs[3]
              /\ last' = [trigger |-> "parameter", returned |-> "prompt", loader |-> "none",
                          escaped |-> "none", file |-> NoFile]
         ELSE \E r \in Pipeline(f, p) :
                /\ graph_figure' = IF r.exc = "none" THEN r.val[1] ELSE ErrorFigure(r.msg)
                /\ data_info' = IF r.exc = "none" THEN r.val[2] ELSE ErrorText(r.msg)
                /\ stats_figure' = IF r.exc = "none" THEN r.val[3] ELSE ErrorFigure(r.msg)
                /\ last' = [trigger |-> "parameter",
                            returned |-> IF r.exc = "none" THEN "loaded" ELSE "error",
                            loader |-> LoaderOf(f), escaped |-> "none", file |-> f]
    /\ UNCHANGED <<world, phase, options, sample_rate, point_size, opacity, color_by,
                   viz_type, auto_update>>

\* file-dropdown is a State of the callback: its change runs nothing
SelectFile(f) ==
    /\ phase = "ready" /\ f # selected_file
    /\ selected_file' = f
    /\ UNCHANGED <<world, phase, options, sample_rate, point_size, opacity, color_by,
                   viz_type, auto_update, outputs, last>>

\* auto-update-checkbox is a State of the callback: its change runs nothing
ToggleAutoUpdate ==
    /\ phase = "ready"
    /\ auto_update' = IF "auto" \in auto_update THEN {} ELSE {"auto"}
    /\ UNCHANGED <<world, phase, options, selected_file, sample_rate, point_size, opacity,
                   color_by, viz_type, outputs, last>>

----------------------------------------------------------------------------
(* Specifications *)

\* the directory of the fixed world
FixedDir == [exists |-> TRUE, entries |-> {CsvA, PcdB, NotesTxt, Hidden}]

\* the directories InitData draws: every set of these names, or no directory
DirNames == {CsvA, PlyC, NotesTxt, UpperCsv, Hidden, SubDir}
Dirs == {[exists |-> TRUE, entries |-> e] : e \in SUBSET DirNames}
          \cup {[exists |-> FALSE, entries |-> {}]}

\* the distance columns InitData draws for a.csv
DistanceColumns == UNION {[1..n -> Distances] : n \in 0..MaxRows}

\* the worlds InitData draws: any directory over the fixed files, or a.csv
\* alone with any distance column
Worlds ==
    {[dir |-> d, files |-> FixedFiles] : d \in Dirs}
      \cup {[dir |-> [exists |-> TRUE, entries |-> {CsvA}],
             files |-> [FixedFiles EXCEPT ![CsvA] = CsvTable(ds)]] : ds \in DistanceColumns}

\* the dropdown values a request may carry: the server does not check the
\* value against the options
Selectable == {NoFile, CsvA, PcdB, NoDist, NoCoord, BadCsv, NotesTxt}

Init ==
    /\ dir = FixedDir
    /\ files = FixedFiles
    /\ phase = "new"
    /\ options = <<>>
    /\ LayoutDefaults
    /\ last = NoRun

Next ==
    \/ Construct
    \/ PageLoad
    \/ ClickLoad
    \/ \E v \in PointSizes : ChangePointSize(v)
    \/ \E v \in Opacities : ChangeOpacity(v)
    \/ \E v \in SampleRates : ChangeSampleRate(v)
    \/ \E v \in ColorModes : ChangeColorBy(v)
    \/ \E v \in VizTypes : ChangeVizType(v)
    \/ \E f \in Selectable : SelectFile(f)
    \/ ToggleAutoUpdate

Spec == Init /\ [][Next]_vars

\* the sample rates NextData explores
DataRates == {1, 50, 70, 100}

\* the values the dropdown offers
OptionValues == {options[i].value : i \in 1..Len(options)}

InitData ==
    /\ \E w \in Worlds : dir = w.dir /\ files = w.files
    /\ phase = "new"
    /\ options = <<>>
    /\ LayoutDefaults
    /\ last = NoRun

NextData ==
    \/ Construct
    \/ PageLoad
    \/ ClickLoad
    \/ \E v \in DataRates : ChangeSampleRate(v)
    \/ \E f \in OptionValues \cup {NoFile} : SelectFile(f)
    \/ ToggleAutoUpdate

SpecData == InitData /\ [][NextData]_vars

----------------------------------------------------------------------------
(* Vocabulary of the properties *)

\* the three states of the dashboard, read off the outputs
Idle == outputs = <<PromptFigure, PromptText, PromptFigure>>
Loaded == /\ graph_figure.kind \in {"scatter3d", "scatter"}
          /\ data_info.kind = "info"
          /\ stats_figure.kind = "stats"
ErrorState == \E msg \in {<<"unsupported file format", ".txt">>, <<"'distance'">>,
                          <<"'Points_m_XYZ:0'">>, <<"Error tokenizing data", BadCsv>>,
                          <<"Is a directory", SubDir>>} :
                 outputs = <<ErrorFigure(msg), ErrorText(msg), ErrorFigure(msg)>>

\* a step in which one of the five parameter inputs changes
ParamChanged == \/ sample_rate' # sample_rate
                \/ point_size' # point_size
                \/ opacity' # opacity
                \/ color_by' # color_by
                \/ viz_type' # viz_type

\* a step made by the load button or by the first, untriggered call
LoadEvent == /\ phase \in {"constructed", "ready"}
             /\ phase' = "ready"
             /\ UNCHANGED inputs

\* the set of the elements of a sequence
Elems(s) == {s[i] : i \in 1..Len(s)}

\* the title the chart carries for a view type
TitleOf(vt) == CASE vt = "3d" -> "3D" [] vt = "xy" -> "XY" [] vt = "xz" -> "XZ"
                 [] vt = "yz" -> "YZ"

----------------------------------------------------------------------------
(* C1: a change of a parameter input while auto-update is off leaves the   *)
(* three outputs exactly as they were (the callback returns no_update),    *)
(* whatever file is selected and whatever the dashboard shows; while        *)
(* auto-update is off, the outputs change only in a load-button step.       *)
C1_ParamChangeIgnoredWhenAutoOff ==
    [][("auto" \notin auto_update) =>
         /\ ParamChanged => (outputs' = outputs /\ last'.returned = "no_update")
         /\ outputs' # outputs => (LoadEvent /\ last'.trigger = "load-button")]_vars

\* a slider was moved with auto-update off while data of a file is shown: the
\* chart still carries the old point size
C1_Witness ==
    /\ last.returned = "no_update" /\ last.trigger = "parameter"
    /\ "auto" \notin auto_update
    /\ Loaded /\ graph_figure.marker.size # point_size

(* C2 as stated: a change of a parameter input while auto-update is on      *)
(* always ends in Loaded or Error.                                          *)
C2_AsStated ==
    [][(ParamChanged /\ "auto" \in auto_update) =>
         last'.returned \in {"loaded", "error"}]_vars

(* C2, amended: a change of a parameter input while auto-update is on and a *)
(* file is selected re-runs the pipeline on the file selected at that time  *)
(* with the new parameter values and ends in Loaded or Error; with no file  *)
(* selected it ends in Idle.  It never returns no_update.                   *)
C2_ParamChangeRerunsWhenAutoOn ==
    [][(ParamChanged /\ "auto" \in auto_update) =>
         /\ last'.trigger = "parameter"
         /\ last'.escaped = "none"
         /\ IF selected_file = NoFile
            THEN last'.returned = "prompt" /\ Idle'
            ELSE /\ last'.returned \in {"loaded", "error"}
                 /\ last'.file = selected_file
                 /\ last'.returned = "error" => ErrorState'
                 /\ last'.returned = "loaded" =>
                      /\ Loaded'
                      /\ data_info'.file = selected_file
                      /\ data_info'.rate = sample_rate'
                      /\ data_info'.point_size = point_size'
                      /\ data_info'.opacity = opacity'
                      /\ graph_figure'.marker.size = point_size'
                      /\ graph_figure'.marker.opacity = opacity'
                      /\ graph_figure'.title = TitleOf(viz_type')
                      /\ Elems(stats_figure'.index)
                           = {r.idx : r \in Elems(LoadFile(selected_file).val.rows)}]_vars

\* a parameter change with auto-update on has drawn b.pcd with a new opacity
C2_Witness ==
    /\ last.trigger = "parameter" /\ last.returned = "loaded" /\ last.file = PcdB
    /\ "auto" \in auto_update
    /\ Loaded /\ data_info.file = PcdB /\ data_info.opacity = 100

(* C3: when the load button, or the first untriggered call, runs the       *)
(* callback and no file is selected, the outputs are the prompt chart, the  *)
(* prompt text and the prompt chart again, for every auto-update setting    *)
(* and every parameter value; nothing is raised and no loader is called.    *)
C3_LoadWithoutFileShowsPrompt ==
    [][(LoadEvent /\ selected_file = NoFile) =>
         /\ graph_figure' = PromptFigure
         /\ data_info' = PromptText
         /\ stats_figure' = PromptFigure
         /\ last'.returned = "prompt"
         /\ last'.loader = "none"
         /\ last'.escaped = "none"]_vars

\* the load button was clicked with no file, auto-update off and a moved slider
C3_Witness ==
    /\ phase = "ready" /\ selected_file = NoFile
    /\ last.trigger = "load-button" /\ last.returned = "prompt"
    /\ "auto" \notin auto_update /\ point_size # 15
    /\ Idle

(* C4 as stated: whenever no file is selected when an event triggers the   *)
(* callback, the dashboard ends in Idle, whatever the trigger, the          *)
(* auto-update setting and the state shown before.                          *)
C4_AsStated ==
    [][((LoadEvent \/ ParamChanged) /\ selected_file = NoFile) => Idle']_vars

(* C4, amended: whenever no file is selected when an event triggers the    *)
(* callback and the event is the load button or auto-update is on, the      *)
(* dashboard ends in Idle whatever it showed before; a parameter change     *)
(* with auto-update off leaves what was shown.                              *)
C4_NoFileEndsIdleUnlessSkipped ==
    [][((LoadEvent \/ ParamChanged) /\ selected_file = NoFile) =>
         IF ParamChanged /\ "auto" \notin auto_update
         THEN outputs' = outputs
         ELSE Idle' /\ last'.returned = "prompt"]_vars

\* a parameter change with auto-update on and no file selected replaced what
\* was shown by the prompt
C4_Witness ==
    /\ selected_file = NoFile /\ "auto" \in auto_update
    /\ last.trigger = "parameter" /\ last.returned = "prompt"
    /\ Idle /\ opacity # 60

(* C5: with a file selected and the callback not skipped, every failure of *)
(* the load, the sampling or the rendering (an unsupported extension, a     *)
(* file that does not parse, a CSV without the distance column or without   *)
(* the coordinate columns) is caught: the outputs are the error chart, the  *)
(* error text and the error chart again, all with the message of the        *)
(* failure; nothing escapes the callback; and the message of an unsupported *)
(* extension carries that extension.                                        *)
C5_FailuresBecomeErrorState ==
    /\ last.escaped = "none" /\ last.returned # "raised"
    /\ last.file \in {NotesTxt, BadCsv, NoDist, NoCoord} =>
         /\ last.returned = "error"
         /\ graph_figure.kind = "annotation" /\ graph_figure.color = "red"
         /\ graph_figure.text = <<"load failed">> \o Tail(data_info.text)
         /\ data_info.kind = "text" /\ Head(data_info.text) = "error"
         /\ stats_figure = graph_figure
         /\ Tail(data_info.text) =
              CASE last.file = NotesTxt -> <<"unsupported file format", Suffix(NotesTxt)>>
                [] last.file = BadCsv   -> <<"Error tokenizing data", BadCsv>>
                [] last.file = NoDist   -> <<"'distance'">>
                [] last.file = NoCoord  -> <<"'Points_m_XYZ:0'">>
    /\ last.returned = "error" => (last.file # NoFile /\ ErrorState)

\* the callback ran on the CSV without coordinate columns, whose failure
\* comes from the chart renderer, and shows the error
C5_Witness ==
    /\ last.file = NoCoord /\ last.returned = "error"
    /\ data_info = ErrorText(<<"'Points_m_XYZ:0'">>)

C7_CsvKeepsPositiveDistance ==
    /\ \A f \in {CsvA, UpperCsv} :
         LET r == load_csv_data(f) IN
           /\ r.exc = "none"
           /\ \A i \in 1..Len(r.val.rows) : r.val.rows[i].v["distance"] > 0
    /\ (last.returned = "loaded" /\ LoaderOf(last.file) = "csv") =>
         LET dist(idx) == files[last.file].rows[idx + 1].v["distance"] IN
           /\ \A idx \in Elems(graph_figure.index) : dist(idx) > 0
           /\ \A idx \in Elems(stats_figure.index) : dist(idx) > 0
           /\ data_info.total = Len(stats_figure.index)
           /\ \A d \in Elems(stats_figure.distance) : d > 0

\* a.csv holds a row of distance 0 and is shown with the two rows it keeps
C7_Witness ==
    /\ last.returned = "loaded" /\ last.file = CsvA
    /\ Len(files[CsvA].rows) = 3 /\ files[CsvA].rows[2].v["distance"] = 0
    /\ data_info.total = 2

(* C8 as stated: with auto-update on, a change of any UI input, the         *)
(* selected file included, runs the pipeline and recomputes the outputs.    *)
C8_AsStated ==
    [][("auto" \in auto_update /\ (ParamChanged \/ selected_file' # selected_file)) =>
         /\ last'.returned \in {"prompt", "loaded", "error"}
         /\ last'.file = selected_file']_vars

(* C8, amended: with auto-update on, a change of one of the five parameter  *)
(* inputs, or a click of the load button, runs the callback on the selected *)
(* file and replaces the outputs; a change of the selected file or of the   *)
(* auto-update checkbox runs nothing and leaves the outputs as they were.   *)
C8_OnlyInputsTrigger ==
    [][/\ ("auto" \in auto_update /\ (ParamChanged \/ LoadEvent)) =>
            /\ last'.returned \in {"prompt", "loaded", "error"}
            /\ last'.file = selected_file
       /\ (selected_file' # selected_file \/ auto_update' # auto_update) =>
            UNCHANGED <<outputs, last>>]_vars

\* another file was selected with auto-update on and the data shown is still
\* that of the file loaded before
C8_Witness ==
    /\ "auto" \in auto_update
    /\ selected_file = PcdB
    /\ last.returned = "loaded" /\ last.file = CsvA /\ data_info.file = CsvA

\* the names of the directory the claim calls files with extension csv, pcd or ply
NamedCsvPcdPly == {f \in dir.entries : Suffix(f) \in {".csv", ".pcd", ".ply"}}

(* C9 as stated: for an existing directory one entry per file with          *)
(* extension csv, pcd or ply and no error; for a directory that does not    *)
(* exist, a failure at startup.                                             *)
C9_AsStated ==
    (phase # "new") =>
        IF dir.exists
        THEN phase # "startup_failed" /\ NamedCsvPcdPly \subseteq OptionValues
        ELSE phase = "startup_failed"

\* the names glob lists: not starting with a dot, ending in .csv, .pcd or .ply
Listed == IF dir.exists
          THEN {f \in dir.entries : ~StartsWithDot(f) /\ Suffix(f) \in {".csv", ".pcd", ".ply"}}
          ELSE {}

(* C9, amended: the enumeration never fails; for an existing directory it   *)
(* returns exactly one entry for every name directly under it that does not *)
(* start with a dot and ends in .csv, .pcd or .ply in lower case (an empty  *)
(* list when there is none); for a directory that does not exist it returns *)
(* the empty list, and the application starts with an empty dropdown.       *)
C9_EnumerationNeverFails ==
    (phase # "new") =>
        /\ phase \in {"constructed", "ready"}
        /\ OptionValues = Listed
        /\ Len(options) = Cardinality(Listed)
        /\ \A i \in 1..Len(options) : options[i].label = options[i].value

\* the directory does not exist and the page is served with no options
C9_Witness == ~dir.exists /\ phase = "ready" /\ options = <<>>

(* C10: once the page is loaded the three outputs are of one kind: all the  *)
(* prompt, all the error of one failure, or chart, info and statistics of   *)
(* the same file; and when data is shown the statistics and the total are   *)
(* those of the whole loaded set while the chart holds the sampled points.  *)
C10_OutputsOfOneRun ==
    (phase = "ready") =>
        \/ Idle
        \/ ErrorState
        \/ /\ Loaded
           /\ LET df == LoadFile(data_info.file).val IN
                /\ data_info.total = Len(df.rows)
                /\ stats_figure.index = [i \in 1..Len(df.rows) |-> df.rows[i].idx]
                /\ stats_figure.x = Column(df, X)
                /\ Len(graph_figure.index) = data_info.sampled
                /\ Elems(graph_figure.index) \subseteq Elems(stats_figure.index)
                /\ graph_figure.marker.size = data_info.point_size
                /\ graph_figure.marker.opacity = data_info.opacity

\* one of the two points of a file is drawn, the statistics hold both
C10_Witness ==
    /\ Loaded
    /\ data_info.total = 2 /\ data_info.sampled = 1
    /\ Len(graph_figure.x) = 1 /\ Len(stats_figure.x) = 2

=============================================================================
